---- MODULE Spec2Model ----
(***************************************************************************)
(* Model of the rocket_landing package: the physical model (model.py), the *)
(* cost functions (cost_function.py) and the state-space discretizer and   *)
(* transition-table builder (solver.py).                                   *)
(*                                                                         *)
(* Numbers.  The program computes on float64.  The model computes on exact *)
(* rationals <<n, d>> (d > 0, lowest terms), so every result is the real   *)
(* number the float computation approximates; rounding error of float64 is *)
(* not modelled.  The infinite cost np.inf is a distinct cost value.       *)
(* Arrays are sequences: x_vector[i] of the program is V[i + 1] here, and  *)
(* every index the model returns or stores is the program's 0-based one.   *)
(***************************************************************************)
EXTENDS Integers, Sequences, FiniteSets, TLC

VARIABLES
    call,                 \* the operation invoked last and its arguments
    ret,                  \* its outcome: a status and, when "ok", a value
    pc,                   \* "start", the loop that is running, or "done"
    i, j, k,              \* loop counters of populate_state_map
    r_prediction_map,     \* the four tables populate_state_map fills, as
    v_prediction_map,     \*   functions on the cells <<k, i, j>> written
    r_predicted_indices,
    v_predicted_indices,
    states,               \* simulate: the rows of the trajectory
    si                    \* simulate: the loop counter

vars == <<call, ret, pc, i, j, k, r_prediction_map, v_prediction_map,
          r_predicted_indices, v_predicted_indices, states, si>>

(***************************************************************************)
(* Bounds of the model.                                                    *)
(***************************************************************************)
MaxLen == 3        \* longest coordinate vector handed to get_index
MaxStep == 2       \* largest spacing of such a vector
MaxEps == 2        \* largest landing tolerance
MaxT == 2          \* largest stage time / horizon of the cost functions
MaxV == 2          \* largest speed handed to the cost functions

(***************************************************************************)
(* Exact rational arithmetic.                                              *)
(***************************************************************************)
Abs(a) == IF a < 0 THEN -a ELSE a

Min(a, b) == IF a <= b THEN a ELSE b

RECURSIVE GCD(_, _)
GCD(a, b) == IF b = 0 THEN a ELSE GCD(b, a % b)

Q(n, d) ==
    LET g == GCD(Abs(n), Abs(d))
        s == IF d < 0 THEN -1 ELSE 1
    IN  <<(s * n) \div g, (s * d) \div g>>

QInt(n) == <<n, 1>>
QAdd(a, b) == Q(a[1] * b[2] + b[1] * a[2], a[2] * b[2])
QSub(a, b) == Q(a[1] * b[2] - b[1] * a[2], a[2] * b[2])
QMul(a, b) == Q(a[1] * b[1], a[2] * b[2])
QDiv(a, b) == Q(a[1] * b[2], a[2] * b[1])
QLt(a, b) == a[1] * b[2] < b[1] * a[2]
QLe(a, b) == a[1] * b[2] <= b[1] * a[2]
QAbs(a) == <<Abs(a[1]), a[2]>>
QFloor(a) == a[1] \div a[2]

(***************************************************************************)
(* Outcomes of a call.                                                     *)
(***************************************************************************)
OkIndex(n) == [status |-> "ok", index |-> n]         \* get_index
OkCost(c) == [status |-> "ok", cost |-> c]           \* the cost functions
OkAccel(a) == [status |-> "ok", accel |-> a]         \* d2x_dt2
OkState(s) == [status |-> "ok", state |-> s]         \* integrate
OkVector(V) == [status |-> "ok", vector |-> V]       \* the axis builders
OkStates(S) == [status |-> "ok", states |-> S]       \* simulate
OkNone == [status |-> "ok"]                          \* populate_state_map
Raise(e) == [status |-> e]
Pending == [status |-> "running"]

(***************************************************************************)
(* solver.py: get_index.  `garbage` is what the unchecked read of          *)
(* x_vector[0] yields when the array is empty (numba compiles the function *)
(* without bounds checks); it is not used otherwise.                       *)
(***************************************************************************)
get_index_no_lower_assert(x_vector, x, garbage) ==
    LET x0 == IF Len(x_vector) >= 1 THEN x_vector[1] ELSE garbage
    IN  IF ~(Len(x_vector) > 1) THEN Raise("AssertionError")
        ELSE LET dx == QSub(x_vector[2], x_vector[1])
             IN  IF dx[1] = 0 THEN Raise("ZeroDivisionError")
                 ELSE OkIndex(Min(Len(x_vector),
                                  QFloor(QDiv(QSub(x, x0), dx))))

get_index_no_offset(x_vector, x, garbage) ==
    LET x0 == IF Len(x_vector) >= 1 THEN x_vector[1] ELSE garbage
    IN  IF ~QLe(x0, x) THEN Raise("AssertionError")
        ELSE IF ~(Len(x_vector) > 1) THEN Raise("AssertionError")
        ELSE LET dx == QSub(x_vector[2], x_vector[1])
             IN  IF dx[1] = 0 THEN Raise("ZeroDivisionError")
                 ELSE OkIndex(Min(Len(x_vector), QFloor(QDiv(x, dx))))

\* as get_index, but rounds the quotient up instead of down
get_index_round_up(x_vector, x, garbage) ==
    LET x0 == IF Len(x_vector) >= 1 THEN x_vector[1] ELSE garbage
    IN  IF ~QLe(x0, x) THEN Raise("AssertionError")
        ELSE IF ~(Len(x_vector) > 1) THEN Raise("AssertionError")
        ELSE LET dx == QSub(x_vector[2], x_vector[1])
             IN  IF dx[1] = 0 THEN Raise("ZeroDivisionError")
                 ELSE OkIndex(Min(Len(x_vector),
                                  -QFloor(QDiv(QSub(x0, x), dx))))

get_index(x_vector, x, garbage) ==
    LET x0 == IF Len(x_vector) >= 1 THEN x_vector[1] ELSE garbage
    IN  IF ~QLe(x0, x) THEN Raise("AssertionError")
        ELSE IF ~(Len(x_vector) > 1) THEN Raise("AssertionError")
        ELSE LET dx == QSub(x_vector[2], x_vector[1])
             IN  IF dx[1] = 0 THEN Raise("ZeroDivisionError")
                 ELSE OkIndex(Min(Len(x_vector),
                                  QFloor(QDiv(QSub(x, x0), dx))))

(***************************************************************************)
(* cost_function.py.  A cost is a finite number or +infinity.              *)
(***************************************************************************)
Fin(v) == [inf |-> FALSE, val |-> v]
Inf == [inf |-> TRUE, val |-> 0]

soft_landing(r_planet, r_rocket, v_rocket, t, tf, eps) ==
    IF t >= tf
    THEN IF -eps <= (r_rocket - r_planet) /\ (r_rocket - r_planet) < eps
         THEN Fin(v_rocket * v_rocket)
         ELSE Inf
    ELSE Fin(0)

quickest_time_no_terminal_t2(r_planet, r_rocket, v_rocket, t, tf, eps) ==
    IF t >= tf
    THEN IF -eps <= (r_rocket - r_planet) /\ (r_rocket - r_planet) < eps
         THEN Fin(v_rocket * v_rocket)
         ELSE Inf
    ELSE Fin(t * t)

quickest_time(r_planet, r_rocket, v_rocket, t, tf, eps) ==
    IF t >= tf
    THEN IF -eps <= (r_rocket - r_planet) /\ (r_rocket - r_planet) < eps
         THEN Fin(v_rocket * v_rocket + t * t)
         ELSE Inf
    ELSE Fin(t * t)

(***************************************************************************)
(* model.py: d2x_dt2 and integrate.  grav_const = 6.6743e-11 is            *)
(* 66743 / 10^15: the model gives the planet's mass in units of 10^15 kg,  *)
(* so that grav_const * mass_planet is the exact integer product below.    *)
(* A failed assertion raises AssertionError; no caller has a handler, so   *)
(* every caller passes the failure on as its own outcome.                  *)
(***************************************************************************)
grav_const == 66743

d2x_dt2_no_mass_assert(mass_planet, r_rocket, mass_rocket, thrust) ==
    IF ~QLt(QInt(0), r_rocket) THEN Raise("AssertionError")
    ELSE IF mass_rocket[1] = 0 THEN Raise("ZeroDivisionError")
    ELSE OkAccel(QAdd(QDiv(QMul(QInt(-grav_const), mass_planet),
                           QMul(r_rocket, r_rocket)),
                      QDiv(thrust, mass_rocket)))

d2x_dt2(mass_planet, r_rocket, mass_rocket, thrust) ==
    IF ~QLt(QInt(0), r_rocket) THEN Raise("AssertionError")
    ELSE IF ~QLt(QInt(0), mass_rocket) THEN Raise("AssertionError")
    ELSE OkAccel(QAdd(QDiv(QMul(QInt(-grav_const), mass_planet),
                           QMul(r_rocket, r_rocket)),
                      QDiv(thrust, mass_rocket)))

integrate(v_rocket, mass_planet, r_rocket, thrust, mass_rocket, dt) ==
    LET a_rocket == d2x_dt2(mass_planet, r_rocket, mass_rocket, thrust)
    IN  IF a_rocket.status # "ok" THEN a_rocket
        ELSE LET a == a_rocket.accel
                 r_rocket_new ==
                     QAdd(QAdd(QMul(QMul(Q(1, 2), a), QMul(dt, dt)),
                               QMul(v_rocket, dt)),
                          r_rocket)
                 v_rocket_new == QAdd(QMul(a, dt), v_rocket)
             IN  OkState(<<r_rocket_new, v_rocket_new>>)

(***************************************************************************)
(* numpy.arange(start, stop, step): ceil((stop - start) / step) elements   *)
(* start + n * step, none when that count is not positive; a zero step is  *)
(* refused.                                                                *)
(***************************************************************************)
QCeil(a) == -((-a[1]) \div a[2])

np_arange(start, stop, step) ==
    IF step[1] = 0 THEN Raise("ValueError")
    ELSE LET count == QCeil(QDiv(QSub(stop, start), step))
             len == IF count > 0 THEN count ELSE 0
         IN  OkVector([n \in 1..len |-> QAdd(start, QMul(QInt(n - 1), step))])

(***************************************************************************)
(* solver.py: create_r_vector and create_v_vector.                         *)
(***************************************************************************)
create_r_vector_stop_at_r0(r_planet, r0, dr) ==
    np_arange(r_planet, r0, dr)

create_r_vector(r_planet, r0, dr) ==
    np_arange(r_planet, QAdd(r0, dr), dr)

\* floor of the square root of a natural number
ISqrt(m) == CHOOSE s \in 0..m : s * s <= m /\ (s + 1) * (s + 1) > m

\* numpy.sqrt(q).round() for a rational q >= 0: the nearest integer, a tie
\* going to the even neighbour.  h is floor(2 * sqrt(q)).
sqrt_round(q) ==
    LET h == ISqrt((4 * q[1]) \div q[2])
        n == h \div 2
    IN  IF h % 2 = 0 THEN n
        ELSE IF h * h * q[2] = 4 * q[1] /\ n % 2 = 0 THEN n
        ELSE n + 1

\* lines 31-32 of create_v_vector, given the acceleration a_rocket
max_speed(a_rocket, mass_rocket, r0, r_planet) ==
    LET approx_potential_energy ==
            QAbs(QMul(QMul(QMul(QInt(2), mass_rocket), a_rocket),
                      QSub(r0, r_planet)))
    IN  sqrt_round(QDiv(QMul(QInt(2), approx_potential_energy), mass_rocket))

create_v_vector(mass_rocket, mass_planet, r0, r_planet) ==
    LET a_rocket == d2x_dt2(mass_planet, r0, mass_rocket, QInt(0))
    IN  IF a_rocket.status # "ok" THEN a_rocket
        ELSE LET speed == max_speed(a_rocket.accel, mass_rocket, r0, r_planet)
             IN  np_arange(QInt(-speed), QInt(speed), QInt(1))

(***************************************************************************)
(* The values the operations are called with.                              *)
(***************************************************************************)
MaxSpan == 3          \* largest r0 - r_planet, in grid units
MaxMassPlanet == 1    \* largest planet mass, in 10^15 kg
MaxMassRocket == 2    \* largest rocket mass
MaxThrust == 1        \* largest thrust
MaxTf == 3            \* longest horizon of simulate

Halves(lo, hi) == {Q(n, 2) : n \in (2 * lo)..(2 * hi)}

UniformVector(start, step, len) ==
    [n \in 1..len |-> QAdd(start, QMul(QInt(n - 1), step))]

\* get_index: vectors of 0..MaxLen elements, ascending, constant or
\* descending, and values below, on, between and above their points
VectorStarts == {QInt(-1), QInt(0), Q(1, 2)}
VectorSteps == {QInt(-1)} \cup Halves(0, MaxStep)
Vectors ==
    {UniformVector(s, d, n) : s \in VectorStarts, d \in VectorSteps,
                              n \in 0..MaxLen}
Values == Halves(-2, MaxLen * MaxStep + 2)

\* the physical model: radii around zero and at altitude
Radii == {-1, 0, 1, 2, 100}
Velocities == {-1, 0, 1}
TimeSteps == {1, 2}

\* create_v_vector: initial altitudes
Altitudes == {0, 100, 300}

\* populate_state_map: the axes and the action sets
RAxes ==
    {UniformVector(QInt(s), QInt(d), n) : s \in {0, 1, 100}, d \in {1, 10},
                                          n \in 2..MaxLen}
VAxes == {UniformVector(QInt(s), QInt(1), n) : s \in {-1, 0}, n \in 2..MaxLen}
ThrustVectors == {<<>>, <<QInt(0)>>, <<QInt(0), QInt(MaxThrust)>>}

(***************************************************************************)
(* The state before the call.                                                 *)
(***************************************************************************)
NoTable == <<>>

Init ==
    /\ call = [op |-> "none"]
    /\ ret = Raise("none")
    /\ pc = "start"
    /\ i = 0 /\ j = 0 /\ k = 0
    /\ r_prediction_map = NoTable
    /\ v_prediction_map = NoTable
    /\ r_predicted_indices = NoTable
    /\ v_predicted_indices = NoTable
    /\ states = <<>>
    /\ si = 0

loop_vars == <<i, j, k, r_prediction_map, v_prediction_map,
               r_predicted_indices, v_predicted_indices, states, si>>

(***************************************************************************)
(* Calls of the functions that return at once.                             *)
(***************************************************************************)
Call_get_index ==
    /\ pc = "start"
    /\ \E x_vector \in Vectors, x \in Values, garbage \in Values :
          /\ call' = [op |-> "get_index", x_vector |-> x_vector, x |-> x]
          /\ ret' = get_index(x_vector, x, garbage)
    /\ pc' = "done" /\ UNCHANGED loop_vars

Call_soft_landing ==
    /\ pc = "start"
    /\ \E r_planet \in 0..1, d \in (-MaxEps - 1)..(MaxEps + 1),
          v_rocket \in (-MaxV)..MaxV, t \in 0..MaxT, tf \in 0..MaxT,
          eps \in 0..MaxEps :
          /\ call' = [op |-> "soft_landing", r_planet |-> r_planet,
                      r_rocket |-> r_planet + d, v_rocket |-> v_rocket,
                      t |-> t, tf |-> tf, eps |-> eps]
          /\ ret' = OkCost(soft_landing(r_planet, r_planet + d, v_rocket, t,
                                        tf, eps))
    /\ pc' = "done" /\ UNCHANGED loop_vars

Call_quickest_time ==
    /\ pc = "start"
    /\ \E r_planet \in 0..1, d \in (-MaxEps - 1)..(MaxEps + 1),
          v_rocket \in (-MaxV)..MaxV, t \in 0..MaxT, tf \in 0..MaxT,
          eps \in 0..MaxEps :
          /\ call' = [op |-> "quickest_time", r_planet |-> r_planet,
                      r_rocket |-> r_planet + d, v_rocket |-> v_rocket,
                      t |-> t, tf |-> tf, eps |-> eps]
          /\ ret' = OkCost(quickest_time(r_planet, r_planet + d, v_rocket, t,
                                         tf, eps))
    /\ pc' = "done" /\ UNCHANGED loop_vars

Call_d2x_dt2 ==
    /\ pc = "start"
    /\ \E mass_planet \in 0..MaxMassPlanet, r_rocket \in Radii,
          mass_rocket \in -1..MaxMassRocket, thrust \in -1..MaxThrust :
          /\ call' = [op |-> "d2x_dt2", mass_planet |-> mass_planet,
                      r_rocket |-> r_rocket, mass_rocket |-> mass_rocket,
                      thrust |-> thrust]
          /\ ret' = d2x_dt2(QInt(mass_planet), QInt(r_rocket),
                            QInt(mass_rocket), QInt(thrust))
    /\ pc' = "done" /\ UNCHANGED loop_vars

Call_integrate ==
    /\ pc = "start"
    /\ \E v_rocket \in Velocities, mass_planet \in 0..MaxMassPlanet,
          r_rocket \in Radii, thrust \in 0..MaxThrust,
          mass_rocket \in 0..MaxMassRocket, dt \in TimeSteps :
          /\ call' = [op |-> "integrate", v_rocket |-> v_rocket,
                      mass_planet |-> mass_planet, r_rocket |-> r_rocket,
                      thrust |-> thrust, mass_rocket |-> mass_rocket,
                      dt |-> dt]
          /\ ret' = integrate(QInt(v_rocket), QInt(mass_planet),
                              QInt(r_rocket), QInt(thrust),
                              QInt(mass_rocket), QInt(dt))
    /\ pc' = "done" /\ UNCHANGED loop_vars

Call_create_r_vector ==
    /\ pc = "start"
    /\ \E r_planet \in {-1, 0, 1, 100}, span \in -1..MaxSpan,
          dr \in Halves(-1, MaxStep) :
          /\ call' = [op |-> "create_r_vector", r_planet |-> r_planet,
                      r0 |-> r_planet + span, dr |-> dr]
          /\ ret' = create_r_vector(QInt(r_planet), QInt(r_planet + span),
                                    dr)
    /\ pc' = "done" /\ UNCHANGED loop_vars

Call_create_v_vector ==
    /\ pc = "start"
    /\ \E mass_rocket \in 0..MaxMassRocket, mass_planet \in 0..MaxMassPlanet,
          r0 \in Altitudes, span \in -1..MaxSpan :
          /\ call' = [op |-> "create_v_vector", mass_rocket |-> mass_rocket,
                      mass_planet |-> mass_planet, r0 |-> r0,
                      r_planet |-> r0 - span]
          /\ ret' = create_v_vector(QInt(mass_rocket), QInt(mass_planet),
                                    QInt(r0), QInt(r0 - span))
    /\ pc' = "done" /\ UNCHANGED loop_vars

(***************************************************************************)
(* solver.py: populate_state_map.  Start_populate is the call; each        *)
(* Step_populate is one pass through the body of the innermost loop, for   *)
(* the cell (k, i, j), followed by the advance of the three loops.         *)
(* The body writes the two predictions before it looks up their indices,   *)
(* so a failed lookup leaves the predictions of its cell written.          *)
(***************************************************************************)
Write(table, cell, v) ==
    [c \in (DOMAIN table) \cup {cell} |-> IF c = cell THEN v ELSE table[c]]

Start_populate ==
    /\ pc = "start"
    /\ \E r_vector \in RAxes, v_vector \in VAxes,
          thrust_vector \in ThrustVectors,
          mass_planet \in 0..MaxMassPlanet, mass_rocket \in 0..1,
          dt \in {1} :
          /\ call' = [op |-> "populate_state_map", r_vector |-> r_vector,
                      v_vector |-> v_vector,
                      thrust_vector |-> thrust_vector,
                      mass_planet |-> mass_planet,
                      mass_rocket |-> mass_rocket, dt |-> dt]
          /\ IF Len(r_vector) = 0 \/ Len(v_vector) = 0
                \/ Len(thrust_vector) = 0
             THEN pc' = "done" /\ ret' = OkNone
             ELSE pc' = "populate" /\ ret' = Pending
    /\ i' = 0 /\ j' = 0 /\ k' = 0
    /\ r_prediction_map' = NoTable
    /\ v_prediction_map' = NoTable
    /\ r_predicted_indices' = NoTable
    /\ v_predicted_indices' = NoTable
    /\ UNCHANGED <<states, si>>

Advance_populate ==
    IF k + 1 < Len(call.thrust_vector)
    THEN k' = k + 1 /\ UNCHANGED <<i, j>> /\ pc' = "populate"
         /\ ret' = Pending
    ELSE IF j + 1 < Len(call.v_vector)
    THEN k' = 0 /\ j' = j + 1 /\ UNCHANGED i /\ pc' = "populate"
         /\ ret' = Pending
    ELSE IF i + 1 < Len(call.r_vector)
    THEN k' = 0 /\ j' = 0 /\ i' = i + 1 /\ pc' = "populate"
         /\ ret' = Pending
    ELSE UNCHANGED <<i, j, k>> /\ pc' = "done" /\ ret' = OkNone

Abort_populate(failure) ==
    /\ pc' = "done"
    /\ ret' = failure
    /\ UNCHANGED <<i, j, k>>

Step_populate ==
    /\ pc = "populate"
    /\ LET cell == <<k, i, j>>
           new_state ==
               integrate(call.v_vector[j + 1], QInt(call.mass_planet),
                         call.r_vector[i + 1], call.thrust_vector[k + 1],
                         QInt(call.mass_rocket), QInt(call.dt))
       IN  IF new_state.status # "ok"
           THEN /\ Abort_populate(new_state)
                /\ UNCHANGED <<r_prediction_map, v_prediction_map,
                               r_predicted_indices, v_predicted_indices>>
           ELSE LET r_new == new_state.state[1]
                    v_new == new_state.state[2]
                    r_idx == get_index(call.r_vector, r_new, QInt(0))
                    v_idx == get_index(call.v_vector, v_new, QInt(0))
                IN  /\ r_prediction_map' = Write(r_prediction_map, cell, r_new)
                    /\ v_prediction_map' = Write(v_prediction_map, cell, v_new)
                    /\ IF r_idx.status # "ok"
                       THEN /\ Abort_populate(r_idx)
                            /\ UNCHANGED <<r_predicted_indices,
                                           v_predicted_indices>>
                       ELSE /\ r_predicted_indices' =
                                   Write(r_predicted_indices, cell,
                                         r_idx.index)
                            /\ IF v_idx.status # "ok"
                               THEN /\ Abort_populate(v_idx)
                                    /\ UNCHANGED v_predicted_indices
                               ELSE /\ v_predicted_indices' =
                                           Write(v_predicted_indices, cell,
                                                 v_idx.index)
                                    /\ Advance_populate
    /\ UNCHANGED <<call, states, si>>

(***************************************************************************)
(* model.py: simulate.  Start_simulate is the call up to the loop; each    *)
(* Step_simulate is one iteration of the loop, the last one returning the  *)
(* array.  NaN is the float that compares false with everything.  A row    *)
(* is <<time, altitude, velocity>>; row i of the program is states[i + 1]. *)
(* With n_steps = 0 the three stores into row 0 fall outside the array     *)
(* (numba compiles without bounds checks): the call either returns the     *)
(* empty array or the process is killed.                                   *)
(* Runs with a planet mass are called with at most two rows, one step of   *)
(* integrate: from the second step on the exact altitude has a denominator *)
(* beyond the 32-bit integers of TLC.  Runs without a planet mass          *)
(* (thrust and initial velocity only) have up to MaxTf rows.               *)
(***************************************************************************)
NaN == <<0, 0>>

FGe(a, b) == a # NaN /\ b # NaN /\ QLe(b, a)

Start_simulate ==
    /\ pc = "start"
    /\ \E tf \in 0..MaxTf, v0 \in Velocities, r0 \in {0, 1, 2, 100},
          m_planet \in 0..MaxMassPlanet, r_planet \in {0, 1, 100},
          dt \in TimeSteps, m_rocket \in 0..1, thrust \in 0..MaxThrust :
          /\ m_planet > 0 => tf \div dt <= 2
          /\ call' = [op |-> "simulate", tf |-> tf, v0 |-> v0, r0 |-> r0,
                      m_planet |-> m_planet, r_planet |-> r_planet,
                      dt |-> dt, m_rocket |-> m_rocket, thrust |-> thrust]
          /\ LET n_steps == tf \div dt
             IN  IF n_steps = 0
                 THEN /\ states' = <<>>
                      /\ pc' = "done"
                      /\ ret' \in {OkStates(<<>>), Raise("killed")}
                 ELSE /\ states' =
                             [n \in 1..n_steps |->
                                 IF n = 1 THEN <<QInt(0), QInt(r0), QInt(v0)>>
                                 ELSE <<NaN, NaN, NaN>>]
                      /\ IF n_steps = 1
                         THEN pc' = "done" /\ ret' = OkStates(states')
                         ELSE pc' = "simulate" /\ ret' = Pending
    /\ si' = 1
    /\ UNCHANGED <<i, j, k, r_prediction_map, v_prediction_map,
                   r_predicted_indices, v_predicted_indices>>

\* as Step_simulate, but a row after a landing repeats the row before it
Step_simulate_hold_last ==
    /\ pc = "simulate"
    /\ LET new_state ==
               integrate(states[si][3], QInt(call.m_planet), states[si][2],
                         QInt(call.thrust), QInt(call.m_rocket),
                         QInt(call.dt))
           updated ==
               IF FGe(states[si][2], QInt(call.r_planet))
               THEN [states EXCEPT ![si + 1] =
                        <<QInt(si * call.dt), new_state.state[1],
                          new_state.state[2]>>]
               ELSE [states EXCEPT ![si + 1] = states[si]]
       IN  IF FGe(states[si][2], QInt(call.r_planet))
              /\ new_state.status # "ok"
           THEN /\ pc' = "done"
                /\ ret' = new_state
                /\ UNCHANGED <<states, si>>
           ELSE /\ states' = updated
                /\ si' = si + 1
                /\ IF si + 1 < Len(states)
                   THEN pc' = "simulate" /\ ret' = Pending
                   ELSE pc' = "done" /\ ret' = OkStates(updated)
    /\ UNCHANGED <<call, i, j, k, r_prediction_map, v_prediction_map,
                   r_predicted_indices, v_predicted_indices>>

Step_simulate ==
    /\ pc = "simulate"
    /\ LET new_state ==
               integrate(states[si][3], QInt(call.m_planet), states[si][2],
                         QInt(call.thrust), QInt(call.m_rocket),
                         QInt(call.dt))
           updated ==
               IF FGe(states[si][2], QInt(call.r_planet))
               THEN [states EXCEPT ![si + 1] =
                        <<QInt(si * call.dt), new_state.state[1],
                          new_state.state[2]>>]
               ELSE states
       IN  IF FGe(states[si][2], QInt(call.r_planet))
              /\ new_state.status # "ok"
           THEN /\ pc' = "done"
                /\ ret' = new_state
                /\ UNCHANGED <<states, si>>
           ELSE /\ states' = updated
                /\ si' = si + 1
                /\ IF si + 1 < Len(states)
                   THEN pc' = "simulate" /\ ret' = Pending
                   ELSE pc' = "done" /\ ret' = OkStates(updated)
    /\ UNCHANGED <<call, i, j, k, r_prediction_map, v_prediction_map,
                   r_predicted_indices, v_predicted_indices>>

Next ==
    \/ Call_get_index
    \/ Call_soft_landing
    \/ Call_quickest_time
    \/ Call_d2x_dt2
    \/ Call_integrate
    \/ Call_create_r_vector
    \/ Call_create_v_vector
    \/ Start_populate
    \/ Step_populate
    \/ Start_simulate
    \/ Step_simulate

Spec == Init /\ [][Next]_vars

(***************************************************************************)
(* Properties.                                                             *)
(***************************************************************************)
Returned(op) == call.op = op /\ pc = "done"

\* V is strictly increasing and uniformly spaced
IsAxis(V) ==
    \A n \in 1..(Len(V) - 1) :
        /\ QLt(V[n], V[n + 1])
        /\ QSub(V[n + 1], V[n]) = QSub(V[2], V[1])

Range(V) == {V[n] : n \in 1..Len(V)}

\* C1: for a strictly increasing, uniformly spaced vector V of two or more
\* elements and every x greater than its last element, also an x less than
\* one step above it, get_index returns len(V).
C1_AboveLastReturnsLen ==
    (/\ Returned("get_index")
     /\ Len(call.x_vector) >= 2
     /\ IsAxis(call.x_vector)
     /\ QLt(call.x_vector[Len(call.x_vector)], call.x))
    => ret = OkIndex(Len(call.x_vector))

C3_PreconditionsAssert ==
    Returned("get_index")
    => /\ (Len(call.x_vector) >= 1 /\ QLt(call.x, call.x_vector[1]))
             => ret = Raise("AssertionError")
       /\ Len(call.x_vector) < 2 => ret = Raise("AssertionError")
       /\ ret.status = "ok"
             => /\ Len(call.x_vector) >= 2
                /\ QLe(call.x_vector[1], call.x)

C3_Witness ==
    /\ Returned("get_index")
    /\ Len(call.x_vector) = 1
    /\ QLt(call.x_vector[1], call.x)
    /\ ret = Raise("AssertionError")

\* every cell of the table of a finished populate_state_map call
Cells ==
    {<<kk, ii, jj>> : kk \in 0..(Len(call.thrust_vector) - 1),
                      ii \in 0..(Len(call.r_vector) - 1),
                      jj \in 0..(Len(call.v_vector) - 1)}

Prediction(cell) ==
    integrate(call.v_vector[cell[3] + 1], QInt(call.mass_planet),
              call.r_vector[cell[2] + 1], call.thrust_vector[cell[1] + 1],
              QInt(call.mass_rocket), QInt(call.dt))

\* C4: given two axes (strictly increasing, uniform, two or more elements,
\* altitudes above zero), a non-empty thrust set and a rocket mass above
\* zero, populate_state_map runs to completion, and then every cell
\* (k, i, j) of the four tables is written: the prediction maps hold the
\* result of integrate at (r_vector[i], v_vector[j], thrust_vector[k]) and
\* the index tables hold get_index of those predictions on their axes.
C4_PopulateFillsEveryCell ==
    (/\ Returned("populate_state_map")
     /\ Len(call.r_vector) >= 2 /\ IsAxis(call.r_vector)
     /\ Len(call.v_vector) >= 2 /\ IsAxis(call.v_vector)
     /\ QLt(QInt(0), call.r_vector[1])
     /\ Len(call.thrust_vector) >= 1
     /\ call.mass_rocket > 0)
    => /\ ret.status = "ok"
       /\ DOMAIN r_prediction_map = Cells
       /\ DOMAIN v_prediction_map = Cells
       /\ DOMAIN r_predicted_indices = Cells
       /\ DOMAIN v_predicted_indices = Cells
       /\ \A cell \in Cells :
             /\ r_prediction_map[cell] = Prediction(cell).state[1]
             /\ v_prediction_map[cell] = Prediction(cell).state[2]
             /\ OkIndex(r_predicted_indices[cell]) =
                    get_index(call.r_vector, r_prediction_map[cell], QInt(0))
             /\ OkIndex(v_predicted_indices[cell]) =
                    get_index(call.v_vector, v_prediction_map[cell], QInt(0))

\* the difference r_rocket - r_planet of a cost-function call
Height == call.r_rocket - call.r_planet

\* C5: soft_landing returns 0 when t < tf; when t >= tf it returns
\* v_rocket squared exactly when |r_rocket - r_planet| < eps and +infinity
\* for every other terminal altitude, r_rocket - r_planet = -eps included.
C5_SoftLandingOpenTolerance ==
    Returned("soft_landing")
    => ret.cost =
          IF call.t < call.tf THEN Fin(0)
          ELSE IF Abs(Height) < call.eps
          THEN Fin(call.v_rocket * call.v_rocket)
          ELSE Inf

\* C6: at the terminal stage (t >= tf) with the default tolerance eps = 0,
\* soft_landing and quickest_time give infinite cost to every altitude but
\* ground level, and the finite cost v_rocket squared (plus t squared for
\* quickest_time) to a rocket exactly at ground level.
C6_GroundLevelFiniteAtZeroTolerance ==
    (/\ Returned("soft_landing") \/ Returned("quickest_time")
     /\ call.t >= call.tf
     /\ call.eps = 0)
    => ret.cost =
          IF Height # 0 THEN Inf
          ELSE IF call.op = "soft_landing"
          THEN Fin(call.v_rocket * call.v_rocket)
          ELSE Fin(call.v_rocket * call.v_rocket + call.t * call.t)

\* cost + x, where infinity + x is infinity
CostPlus(cost, x) == IF cost.inf THEN Inf ELSE Fin(cost.val + x)

\* C7: on all inputs quickest_time is soft_landing on the same inputs plus
\* t squared, infinity plus t squared being infinity: t squared before the
\* terminal stage, v_rocket squared + t squared when landed within the
\* tolerance at t >= tf, and +infinity at t >= tf otherwise.
C7_QuickestTimeIsSoftLandingPlusT2 ==
    Returned("quickest_time")
    => LET soft == soft_landing(call.r_planet, call.r_rocket, call.v_rocket,
                                call.t, call.tf, call.eps)
       IN  /\ ret.cost = CostPlus(soft, call.t * call.t)
           /\ call.t < call.tf => ret.cost = Fin(call.t * call.t)
           /\ (call.t >= call.tf /\ ~soft.inf)
                 => ret.cost = Fin(call.v_rocket * call.v_rocket
                                    + call.t * call.t)
           /\ (call.t >= call.tf /\ soft.inf) => ret.cost = Inf

C7_Witness ==
    /\ Returned("quickest_time")
    /\ call.t >= call.tf
    /\ call.t > 0
    /\ call.v_rocket # 0
    /\ ~ret.cost.inf

\* the call of d2x_dt2 that the loop of populate_state_map made last
CellAcceleration ==
    d2x_dt2(QInt(call.mass_planet), call.r_vector[i + 1],
            QInt(call.mass_rocket), call.thrust_vector[k + 1])

CallMaxSpeed ==
    max_speed(d2x_dt2(QInt(call.mass_planet), QInt(call.r0),
                      QInt(call.mass_rocket), QInt(0)).accel,
              QInt(call.mass_rocket), QInt(call.r0), QInt(call.r_planet))

\* C10: create_v_vector returns a unit-step velocity axis symmetric about
\* zero: its first element is -v_max and its last element is +v_max, v_max
\* being the rounded speed bound sqrt(2 * E / m), E = |2 m a (r0 - r_planet)|.
C10_VelocityAxisSymmetric ==
    (Returned("create_v_vector") /\ ret.status = "ok")
    => /\ Len(ret.vector) >= 1
       /\ ret.vector[1] = QInt(-CallMaxSpeed)
       /\ ret.vector[Len(ret.vector)] = QInt(CallMaxSpeed)
       /\ \A n \in 1..(Len(ret.vector) - 1) :
             QSub(ret.vector[n + 1], ret.vector[n]) = QInt(1)

\* a row of the trajectory that was never written
NaNRow == <<NaN, NaN, NaN>>

\* the row one integrate step after row p of the trajectory (p counted
\* from 1), which is row p of the program
NextRow(p) ==
    LET new_state ==
            integrate(states[p][3], QInt(call.m_planet), states[p][2],
                      QInt(call.thrust), QInt(call.m_rocket), QInt(call.dt))
    IN  <<QInt(p * call.dt), new_state.state[1], new_state.state[2]>>

\* C11: in the trajectory simulate builds, row i (i >= 1) is one integrate
\* step from row i - 1 exactly while the altitude of row i - 1 is at least
\* r_planet; once a row has an altitude below r_planet nothing is updated
\* any more, and every later row stays NaN in time, altitude and velocity
\* to the end of the trajectory.
C11_RowsStopAfterLanding ==
    call.op = "simulate"
    => /\ \A p \in 2..Len(states) :
             IF p <= si /\ FGe(states[p - 1][2], QInt(call.r_planet))
             THEN states[p] = NextRow(p - 1)
             ELSE states[p] = NaNRow
       /\ \A p \in 1..Len(states) :
             (states[p][2] # NaN /\ QLt(states[p][2], QInt(call.r_planet)))
             => \A q \in (p + 1)..Len(states) : states[q] = NaNRow

C11_Witness ==
    /\ Returned("simulate")
    /\ ret = OkStates(states)
    /\ Len(states) >= 3
    /\ FGe(states[1][2], QInt(call.r_planet))
    /\ states[2][2] # NaN
    /\ QLt(states[2][2], QInt(call.r_planet))
    /\ states[3] = NaNRow

\* C12: an empty thrust set and a zero grid step are rejected with a
\* failure before any cell of the transition table is written:
\* populate_state_map does not return normally, its tables unwritten, when
\* thrust_vector is empty, and create_r_vector returns no vector when
\* dr = 0.
C12_DegenerateInputsRejected ==
    /\ (Returned("populate_state_map") /\ Len(call.thrust_vector) = 0)
       => (ret.status # "ok" /\ r_predicted_indices = NoTable)
    /\ (Returned("create_r_vector") /\ call.dr = QInt(0))
       => ret.status # "ok"

\* p is a position on `axis` and the grid point there is at or below
\* `value`
IsLowerGridIndex(axis, p, value) ==
    /\ 0 <= p
    /\ p < Len(axis)
    /\ QLe(axis[p + 1], value)

IsLowerGridIndexOrOffGrid(axis, p, value) ==
    \/ IsLowerGridIndex(axis, p, value)
    \/ /\ p = Len(axis)
       /\ QLt(axis[Len(axis)], value)

IsAxisOfTwoOrMore(V) == Len(V) >= 2 /\ IsAxis(V)

\* C14: for r_planet > 0, r0 >= r_planet (r0 = r_planet included), dr > 0
\* and a rocket mass > 0, every vector create_r_vector and create_v_vector
\* return is strictly increasing, uniformly spaced and of length >= 2.
C14_AxesHaveTwoOrMorePoints ==
    /\ (/\ Returned("create_r_vector")
        /\ call.r_planet > 0
        /\ call.r0 >= call.r_planet
        /\ QLt(QInt(0), call.dr))
       => (ret.status = "ok" /\ IsAxisOfTwoOrMore(ret.vector))
    /\ (/\ Returned("create_v_vector")
        /\ call.r_planet > 0
        /\ call.r0 >= call.r_planet
        /\ call.mass_rocket > 0)
       => (ret.status = "ok" /\ IsAxisOfTwoOrMore(ret.vector))

\* no row of the trajectory is below r_planet (and none is unwritten)
NeverBelowPlanet(S) ==
    \A p \in 1..Len(S) : FGe(S[p][2], QInt(call.r_planet))

\* C15: the trajectory simulate returns starts with the row (0, r0, v0);
\* when the rocket never drops below r_planet, row i has time i * dt and the
\* rows run up to and including t = tf (for tf a positive multiple of dt
\* the last row has time tf); for tf < dt the call still returns a
\* trajectory with its first row.
C15_TrajectoryRunsToTf ==
    Returned("simulate")
    => /\ call.tf < call.dt
          => (ret.status = "ok" /\ Len(ret.states) >= 1)
       /\ ret.status = "ok"
          => (/\ Len(ret.states) >= 1
              /\ ret.states[1] =
                     <<QInt(0), QInt(call.r0), QInt(call.v0)>>)
       /\ (ret.status = "ok" /\ NeverBelowPlanet(ret.states))
          => (/\ \A p \in 1..Len(ret.states) :
                    ret.states[p][1] = QInt((p - 1) * call.dt)
              /\ (call.tf > 0 /\ call.tf % call.dt = 0)
                 => (/\ Len(ret.states) >= 1
                     /\ ret.states[Len(ret.states)][1] = QInt(call.tf)))

====
